---- MODULE Spec2Model ----
(***************************************************************************)
(* Contact scheduling of backend/satellite_config.py: assign_contacts      *)
(* sorts a batch of contact windows by (priority, start_time) and admits   *)
(* each one to its ground station while the station's overlap count stays  *)
(* below its capacity.                                                     *)
(*                                                                         *)
(* A window is a Python dict that the scheduler mutates in place; it is    *)
(* identified here by its index in the caller's list contact_windows, and  *)
(* sorted_windows, assignments and gs_schedules hold such indices (they    *)
(* reference the same dict objects).  The "assigned" key is "unset" while  *)
(* the dict does not carry it, then "true" or "false".                     *)
(***************************************************************************)
EXTENDS Integers, Sequences, FiniteSets, TLC

\* Bounds of the model.
MaxWindows == 3       \* windows in one batch
MaxTime == 3          \* minutes 0..MaxTime of the tick's hour
MaxCapacity == 2      \* station capacities 0..MaxCapacity
NumStations == 2      \* station ids 1..NumStations may be referenced
MaxPriority == 2      \* priority tiers 1..MaxPriority
MaxPasses == 2        \* calls of assign_contacts on the same list
MaxIdLen == 5         \* characters of a satellite identifier
MaxPeriod == 3        \* orbit periods -MaxPeriod..MaxPeriod are passed
NumSatellites == 2    \* satellites SAT-1 .. of the end-to-end run
DurationSamples == 1  \* durations sampled from the low end of the range

\* duration = random.randint(5, 15)
MinDuration == 5
MaxDuration == 15
\* if distance < 5000
VisibilityThreshold == 5000

\* priority is random.choice([1, 2, 3]): tiers 1, 2, ...
Priorities == 1 .. MaxPriority
Times == 0 .. MaxTime
StationIds == 1 .. NumStations

(***************************************************************************)
(* Times are carried as ISO strings (timestamp.isoformat()); the sort key  *)
(* compares the strings, the overlap test parses them back.  A string is   *)
(* modelled by its two minute digits.                                      *)
(***************************************************************************)
isoformat(t) == << t \div 10, t % 10 >>

fromisoformat(s) == s[1] * 10 + s[2]

\* Python's str "<": lexicographic, a proper prefix is smaller.
StrLess(a, b) ==
    \/ \E i \in 1 .. Len(a) :
          /\ i <= Len(b)
          /\ a[i] < b[i]
          /\ \A j \in 1 .. (i - 1) : a[j] = b[j]
    \/ /\ Len(a) < Len(b)
       /\ \A j \in 1 .. Len(a) : a[j] = b[j]

\* KeyLess with "<=" in place of "<" on the start time: equal keys count as
\* out of order, so the insertion puts a window before its equals.
KeyLessOrEqual(x, y) ==
    \/ x.priority < y.priority
    \/ /\ x.priority = y.priority
       /\ ~StrLess(y.start_time, x.start_time)

\* KeyLess with the priority compared the other way round: the larger
\* numeric tier sorts first.
KeyLessDescending(x, y) ==
    \/ x.priority > y.priority
    \/ /\ x.priority = y.priority
       /\ StrLess(x.start_time, y.start_time)

\* key=lambda x: (x["priority"], x["start_time"]), compared as tuples.
KeyLess(x, y) ==
    \/ x.priority < y.priority
    \/ /\ x.priority = y.priority
       /\ StrLess(x.start_time, y.start_time)

\* Stable insertion of index x into the sorted index list s: x goes after
\* every element whose key is not greater than its own.
RECURSIVE InsertSorted(_, _, _)
InsertSorted(wins, s, x) ==
    IF s = << >>
    THEN << x >>
    ELSE IF KeyLess(wins[x], wins[s[Len(s)]])
         THEN Append(InsertSorted(wins, SubSeq(s, 1, Len(s) - 1), x), s[Len(s)])
         ELSE Append(s, x)

RECURSIVE SortPrefix(_, _)
SortPrefix(wins, k) ==
    IF k = 0 THEN << >> ELSE InsertSorted(wins, SortPrefix(wins, k - 1), k)

\* sorted left out: the windows are processed in input order.
sortedInputOrder(wins) == [i \in 1 .. Len(wins) |-> i]

\* sorted(contact_windows, key=...): Python's sort is stable.
sorted(wins) == SortPrefix(wins, Len(wins))

\* gs_schedules = {gs["id"]: [] for gs in ground_stations}
InitSchedules(stations) ==
    [g \in {stations[i].id : i \in 1 .. Len(stations)} |-> << >>]

\* OverlapsExisting as a closed-interval overlap test: intervals that only
\* touch at an endpoint count as overlapping.
OverlapsTouching(contact, existing) ==
    /\ fromisoformat(contact.start_time) <= fromisoformat(existing.end_time)
    /\ fromisoformat(existing.start_time) <= fromisoformat(contact.end_time)

\* OverlapsExisting as the usual test of half-open intervals: the two
\* intervals share an instant.
OverlapsIntersecting(contact, existing) ==
    /\ fromisoformat(contact.start_time) < fromisoformat(existing.end_time)
    /\ fromisoformat(existing.start_time) < fromisoformat(contact.end_time)

\* not (end <= existing.end or start >= existing.start)
OverlapsExisting(contact, existing) ==
    LET start == fromisoformat(contact.start_time)
        end == fromisoformat(contact.end_time)
    IN ~(\/ end <= fromisoformat(existing.end_time)
         \/ start >= fromisoformat(existing.start_time))

\* overlaps counted over the windows of the station that carry
\* assigned = true, instead of over the pass's own gs_schedules list.
overlapsByFlag(wins, sched, c) ==
    Cardinality({k \in DOMAIN wins :
                    /\ k # c
                    /\ wins[k].ground_station_id = wins[c].ground_station_id
                    /\ wins[k].assigned = "true"
                    /\ ~(\/ fromisoformat(wins[c].end_time) <= fromisoformat(wins[k].end_time)
                         \/ fromisoformat(wins[c].start_time) >= fromisoformat(wins[k].start_time))})

\* overlaps = sum(... for existing in gs_schedules[gs_id])
overlaps(wins, sched, c) ==
    Cardinality({k \in 1 .. Len(sched) : OverlapsExisting(wins[c], wins[sched[k]])})

HasStation(stations, gs_id) ==
    \E i \in 1 .. Len(stations) : stations[i].id = gs_id

\* capacity = next(gs["capacity"] for gs in ground_stations if gs["id"] == gs_id)
capacity(stations, gs_id) ==
    LET i == CHOOSE i \in 1 .. Len(stations) :
                 /\ stations[i].id = gs_id
                 /\ \A j \in 1 .. (i - 1) : stations[j].id # gs_id
    IN stations[i].capacity

\* Admits with "<=" in place of "<".
AdmitsUpTo(n, cap) == n <= cap

\* if overlaps < capacity
Admits(n, cap) == n < cap

\* Raise with the lookup error caught and the window rejected.
RaiseAsReject(st, c) ==
    [st EXCEPT !.wins[c].assigned = "false",
               !.assignments = Append(@, c)]

\* The lookup gs_schedules[gs_id] (or next(...)) raises: the exception
\* leaves assign_contacts, nothing is returned.
Raise(st, c) == [st EXCEPT !.status = "raised"]

\* Admit without the append to the station's schedule.
AdmitUnrecorded(st, c) ==
    [st EXCEPT !.wins[c].assigned = "true",
               !.assignments = Append(@, c)]

\* Admit when every station's schedule is one shared list: the append
\* shows in the schedule of every station.
AdmitAllStations(st, c) ==
    [st EXCEPT !.scheds = [g \in DOMAIN st.scheds |-> Append(st.scheds[g], c)],
               !.wins[c].assigned = "true",
               !.assignments = Append(@, c)]

\* gs_schedules[gs_id].append(contact); contact["assigned"] = True
Admit(st, c) ==
    LET gs_id == st.wins[c].ground_station_id
    IN [st EXCEPT !.scheds[gs_id] = Append(@, c),
                  !.wins[c].assigned = "true",
                  !.assignments = Append(@, c)]

\* Reject without the write of the flag.
RejectNoFlag(st, c) == [st EXCEPT !.assignments = Append(@, c)]

\* Reject that also evicts the window the station admitted last: its flag
\* goes back to false and it leaves the schedule.
RejectAndEvict(st, c) ==
    LET gs_id == st.wins[c].ground_station_id
        sched == st.scheds[gs_id]
    IN IF sched = << >>
       THEN [st EXCEPT !.wins[c].assigned = "false",
                       !.assignments = Append(@, c)]
       ELSE [st EXCEPT !.wins[c].assigned = "false",
                       !.wins[sched[Len(sched)]].assigned = "false",
                       !.scheds[gs_id] = SubSeq(sched, 1, Len(sched) - 1),
                       !.assignments = Append(@, c)]

\* contact["assigned"] = False
Reject(st, c) ==
    [st EXCEPT !.wins[c].assigned = "false",
               !.assignments = Append(@, c)]

\* One iteration of "for contact in sorted_windows" on the pass state st
\* (wins: the dicts, scheds: gs_schedules, assignments, status).
ProcessContact(st, stations, c) ==
    LET gs_id == st.wins[c].ground_station_id
    IN IF gs_id \notin DOMAIN st.scheds \/ ~HasStation(stations, gs_id)
       THEN Raise(st, c)
       ELSE IF Admits(overlaps(st.wins, st.scheds[gs_id], c),
                      capacity(stations, gs_id))
            THEN Admit(st, c)
            ELSE Reject(st, c)

RECURSIVE RunLoop(_, _, _, _)
RunLoop(st, stations, order, k) ==
    IF k > Len(order) \/ st.status = "raised"
    THEN st
    ELSE RunLoop(ProcessContact(st, stations, order[k]), stations, order, k + 1)

\* A whole call: the final pass state; status "ok" means it returned
\* assignments, "raised" that an exception left it.
assign_contacts(wins, stations) ==
    RunLoop([wins |-> wins, scheds |-> InitSchedules(stations),
             assignments |-> << >>, status |-> "ok"],
            stations, sorted(wins), 1)

----------------------------------------------------------------------------
(***************************************************************************)
(* simulate_satellite_position.  An identifier is a string, modelled as    *)
(* the sequence of its characters; NoneId stands for sat_id=None.  A       *)
(* timestamp is the minute count hour*60 + minute.  The angle is the       *)
(* exact fraction num/den of a degree; the latitude sin(radians(angle))*60 *)
(* is kept as the term of its angle.                                       *)
(***************************************************************************)
NoneId == << "None" >>

DigitChars == << "0", "1", "2", "3", "4", "5", "6", "7", "8", "9" >>

IsDigit(ch) == \E d \in 1 .. 10 : DigitChars[d] = ch

DigitValue(ch) == (CHOOSE d \in 1 .. 10 : DigitChars[d] = ch) - 1

\* str.split(sep) for a one-character separator.
RECURSIVE Split(_, _)
Split(str, sep) ==
    IF \A i \in 1 .. Len(str) : str[i] # sep
    THEN << str >>
    ELSE LET i == CHOOSE i \in 1 .. Len(str) :
                     /\ str[i] = sep
                     /\ \A j \in 1 .. (i - 1) : str[j] # sep
         IN << SubSeq(str, 1, i - 1) >> \o Split(SubSeq(str, i + 1, Len(str)), sep)

\* int(str) accepts a non-empty run of decimal digits (of the characters
\* modelled here); anything else is a ValueError.
IsIntLiteral(str) == str # << >> /\ \A i \in 1 .. Len(str) : IsDigit(str[i])

RECURSIVE IntValue(_)
IntValue(str) ==
    IF str = << >>
    THEN 0
    ELSE 10 * IntValue(SubSeq(str, 1, Len(str) - 1)) + DigitValue(str[Len(str)])

\* offset = int(sat_id.split("-")[1]) if sat_id else 0
\* [status, value]: "ok", or the exception the expression raises.
Offset(sat_id) ==
    IF sat_id = NoneId \/ sat_id = << >>
    THEN [status |-> "ok", value |-> 0]
    ELSE LET parts == Split(sat_id, "-")
         IN IF Len(parts) < 2
            THEN [status |-> "IndexError", value |-> 0]
            ELSE IF ~IsIntLiteral(parts[2])
                 THEN [status |-> "ValueError", value |-> 0]
                 ELSE [status |-> "ok", value |-> IntValue(parts[2])]

\* angle = (360 * minutes / orbit_period) % 360, for orbit_period # 0:
\* Python's % takes the sign of the divisor 360, so the angle is in [0, 360).
Angle(minutes, orbit_period) ==
    LET den == IF orbit_period > 0 THEN orbit_period ELSE 0 - orbit_period
        num == IF orbit_period > 0 THEN 360 * minutes ELSE 0 - 360 * minutes
    IN [num |-> num % (360 * den), den |-> den]

\* lon = (angle - 180) % 360 - 180
Longitude(angle) ==
    [num |-> ((angle.num - 180 * angle.den) % (360 * angle.den)) - 180 * angle.den,
     den |-> angle.den]

\* lat = math.sin(math.radians(angle)) * 60
Latitude(angle) == [sin_times_60_of |-> angle]

\* The call's outcome: status "ok" with (lat, lon), or the exception.
simulate_satellite_position(orbit_period, ts, sat_id) ==
    LET offset == Offset(sat_id)
    IN IF offset.status # "ok"
       THEN [status |-> offset.status]
       ELSE IF orbit_period = 0
            THEN [status |-> "ZeroDivisionError"]
            ELSE LET angle == Angle(ts + offset.value, orbit_period)
                 IN [status |-> "ok", lat |-> Latitude(angle), lon |-> Longitude(angle)]

----------------------------------------------------------------------------
(***************************************************************************)
(* generate_contact_windows and simulate_telemetry.  The distance that     *)
(* haversine computes for a station and the random duration are inputs     *)
(* dist[gs_id] and dur[gs_id] of the generator.  The random datavolume of  *)
(* a window and the random battery_level, temperature and status of a      *)
(* telemetry record are read by no operation and are left out.             *)
(***************************************************************************)

\* The random durations that are sampled: the first DurationSamples values
\* of the range and its last value.
Durations ==
    {d \in MinDuration .. MaxDuration :
        d < MinDuration + DurationSamples \/ d = MaxDuration}

\* The distances that are sampled: just inside and at the threshold.
DistanceSamples == {VisibilityThreshold - 1, VisibilityThreshold}

\* Visible with "<=" in place of "<".
VisibleInclusive(distance) == distance <= VisibilityThreshold

\* if distance < 5000
Visible(distance) == distance < VisibilityThreshold

\* MakeWindow without the timedelta: the window ends when it starts.
MakeWindowNoDuration(satellite, gs, ts, distance, duration) ==
    [satellite_id |-> satellite.id,
     ground_station_id |-> gs.id,
     start_time |-> isoformat(ts),
     end_time |-> isoformat(ts),
     timestamp |-> isoformat(ts),
     distance |-> distance,
     priority |-> satellite.priority,
     assigned |-> "unset"]

\* The dict appended for a visible station.
MakeWindow(satellite, gs, ts, distance, duration) ==
    [satellite_id |-> satellite.id,
     ground_station_id |-> gs.id,
     start_time |-> isoformat(ts),
     end_time |-> isoformat(ts + duration),
     timestamp |-> isoformat(ts),
     distance |-> distance,
     priority |-> satellite.priority,
     assigned |-> "unset"]

\* "for gs in ground_stations" over the first k stations.
RECURSIVE WindowsUpTo(_, _, _, _, _, _)
WindowsUpTo(satellite, stations, ts, dist, dur, k) ==
    IF k = 0
    THEN << >>
    ELSE LET gs == stations[k]
             before == WindowsUpTo(satellite, stations, ts, dist, dur, k - 1)
         IN IF Visible(dist[gs.id])
            THEN Append(before, MakeWindow(satellite, gs, ts, dist[gs.id], dur[gs.id]))
            ELSE before

\* The lines the loop prints: the distance computed for each station.
DistanceLines(satellite, stations, dist) ==
    [k \in 1 .. Len(stations) |->
        [satellite_id |-> satellite.id, ground_station_id |-> stations[k].id,
         distance |-> dist[stations[k].id]]]

\* The call's outcome: status "ok" with the windows, or the exception of
\* simulate_satellite_position.
generate_contact_windows(satellite, stations, ts, dist, dur) ==
    LET position == simulate_satellite_position(satellite.orbit_period, ts, satellite.id)
    IN IF position.status # "ok"
       THEN [status |-> position.status, windows |-> << >>, printed |-> << >>]
       ELSE [status |-> "ok",
             windows |-> WindowsUpTo(satellite, stations, ts, dist, dur, Len(stations)),
             printed |-> DistanceLines(satellite, stations, dist)]

\* The filter left out: every returned contact is taken.
AllContacts(wins, returned) == returned

\* assigned = [c for c in assigned_contacts if c.get("assigned")]
AssignedContacts(wins, returned) ==
    SelectSeq(returned, LAMBDA i : wins[i].assigned = "true")

\* orbit_period = next(s["orbit_period"] for s in SATELLITES if s["id"] == ...)
OrbitPeriodOf(sats, sat_id) ==
    LET i == CHOOSE i \in 1 .. Len(sats) :
                 /\ sats[i].id = sat_id
                 /\ \A j \in 1 .. (i - 1) : sats[j].id # sat_id
    IN sats[i].orbit_period

\* The call's outcome: status "ok" with the record, or the exception.
simulate_telemetry(contact, orbit_period) ==
    LET position == simulate_satellite_position(orbit_period,
                                                fromisoformat(contact.timestamp),
                                                contact.satellite_id)
    IN IF position.status # "ok"
       THEN [status |-> position.status]
       ELSE [status |-> "ok",
             record |-> [satellite_id |-> contact.satellite_id,
                         ground_station_id |-> contact.ground_station_id,
                         timestamp |-> contact.timestamp,
                         position_lat |-> position.lat,
                         position_lon |-> position.lon]]

----------------------------------------------------------------------------
VARIABLES
    ground_stations,   \* the catalog: sequence of [id, capacity]
    contact_windows,   \* the caller's list of window dicts
    pc,                \* "idle", "loop", "returned", "raised"
    sorted_windows,    \* indices in sorted order
    assignments,       \* indices appended so far
    gs_schedules,      \* station id -> admitted indices
    result,            \* the returned list (indices), valid when pc = "returned"
    passes,            \* calls started so far
    prev_assigned,     \* assigned values the caller saw after the previous call
    prev_result,       \* the list the previous call returned
    position_call,     \* a call of simulate_satellite_position and its outcome
    satellites,        \* SATELLITES: sequence of [id, orbit_period, priority]
    timestamp,         \* the tick of main
    pending,           \* satellites the shuffled loop has not reached yet
    distance_log,      \* the distances generate_contact_windows printed
    telemetry          \* the telemetry records logged so far

pipeline_vars == << satellites, timestamp, pending, distance_log, telemetry >>

vars == << ground_stations, contact_windows, pc, sorted_windows, assignments,
           gs_schedules, result, passes, prev_assigned, prev_result,
           position_call, satellites, timestamp, pending, distance_log, telemetry >>

\* main is not running.
NoPipeline ==
    /\ satellites = << >>
    /\ timestamp = 0
    /\ pending = {}
    /\ distance_log = << >>
    /\ telemetry = << >>

\* No call of simulate_satellite_position is under way.
NoPositionCall == [status |-> "none"]

Intervals == {<< s, e >> \in Times \X Times : s < e}

\* A window as the generator hands it over: no "assigned" key yet.
Windows ==
    {[ground_station_id |-> g, priority |-> p,
      start_time |-> isoformat(iv[1]), end_time |-> isoformat(iv[2]),
      assigned |-> "unset"] :
        g \in StationIds, p \in Priorities, iv \in Intervals}

\* Catalogs with unique ids GS-1 .. GS-k; a window that references a
\* larger id references an unknown station.
Catalogs ==
    UNION {[1 .. k -> 0 .. MaxCapacity] : k \in 0 .. NumStations}

Init ==
    /\ \E caps \in Catalogs :
          ground_stations = [i \in DOMAIN caps |-> [id |-> i, capacity |-> caps[i]]]
    /\ contact_windows \in UNION {[1 .. n -> Windows] : n \in 0 .. MaxWindows}
    /\ pc = "idle"
    /\ sorted_windows = << >>
    /\ assignments = << >>
    /\ gs_schedules = << >>
    /\ result = << >>
    /\ passes = 0
    /\ prev_assigned = << >>
    /\ prev_result = << >>
    /\ position_call = NoPositionCall
    /\ NoPipeline

Assigned(wins) == [i \in DOMAIN wins |-> wins[i].assigned]

\* assign_contacts(contact_windows, ground_stations) is called: the sort
\* and the fresh gs_schedules.
StartPass ==
    /\ passes' = passes + 1
    /\ prev_assigned' = Assigned(contact_windows)
    /\ prev_result' = result
    /\ sorted_windows' = sorted(contact_windows)
    /\ assignments' = << >>
    /\ gs_schedules' = InitSchedules(ground_stations)
    /\ result' = << >>
    /\ pc' = "loop"
    /\ UNCHANGED << ground_stations, contact_windows, position_call, pipeline_vars >>

\* A caller holding the list calls assign_contacts on it, the first time
\* or again.
Call ==
    /\ pc \in {"idle", "returned"}
    /\ passes < MaxPasses
    /\ StartPass

\* The loop body for the next window of sorted_windows.
Step ==
    /\ pc = "loop"
    /\ Len(assignments) < Len(sorted_windows)
    /\ LET st == ProcessContact([wins |-> contact_windows, scheds |-> gs_schedules,
                                 assignments |-> assignments, status |-> "ok"],
                                ground_stations,
                                sorted_windows[Len(assignments) + 1])
       IN /\ contact_windows' = st.wins
          /\ gs_schedules' = st.scheds
          /\ assignments' = st.assignments
          /\ pc' = IF st.status = "raised" THEN "raised" ELSE "loop"
    /\ UNCHANGED << ground_stations, sorted_windows, result, passes,
                    prev_assigned, prev_result, position_call, pipeline_vars >>

\* return assignments
Return ==
    /\ pc = "loop"
    /\ Len(assignments) = Len(sorted_windows)
    /\ result' = assignments
    /\ pc' = "returned"
    /\ UNCHANGED << ground_stations, contact_windows, sorted_windows, assignments,
                    gs_schedules, passes, prev_assigned, prev_result, position_call,
                    pipeline_vars >>

Next == Call \/ Step \/ Return

Spec == Init /\ [][Next]_vars

----------------------------------------------------------------------------
\* Calls of simulate_satellite_position on any identifier, orbit period
\* and timestamp.

IdChars == {"S", "A", "T", "-", "1"}

Identifiers == {NoneId} \cup UNION {[1 .. n -> IdChars] : n \in 0 .. MaxIdLen}

OrbitPeriods == (0 - MaxPeriod) .. MaxPeriod

InitPosition ==
    /\ ground_stations = << >>
    /\ contact_windows = << >>
    /\ pc = "position"
    /\ sorted_windows = << >>
    /\ assignments = << >>
    /\ gs_schedules = << >>
    /\ result = << >>
    /\ passes = 0
    /\ prev_assigned = << >>
    /\ prev_result = << >>
    /\ \E id \in Identifiers, period \in OrbitPeriods, ts \in Times :
          position_call = [status |-> "called", sat_id |-> id,
                           orbit_period |-> period, timestamp |-> ts]
    /\ NoPipeline

\* The call runs to its return or to its exception.
SimulatePosition ==
    /\ pc = "position"
    /\ position_call.status = "called"
    /\ position_call' =
          [status |-> "finished", sat_id |-> position_call.sat_id,
           orbit_period |-> position_call.orbit_period,
           timestamp |-> position_call.timestamp,
           outcome |-> simulate_satellite_position(position_call.orbit_period,
                                                   position_call.timestamp,
                                                   position_call.sat_id)]
    /\ UNCHANGED << ground_stations, contact_windows, pc, sorted_windows,
                    assignments, gs_schedules, result, passes, prev_assigned,
                    prev_result, pipeline_vars >>

NextPosition == SimulatePosition

SpecPosition == InitPosition /\ [][NextPosition]_vars

----------------------------------------------------------------------------
\* main: generate all windows of the tick, schedule them, then simulate
\* and log the telemetry of the assigned ones.

\* f"SAT-{i}"
SatId(i) == << "S", "A", "T", "-", DigitChars[i + 1] >>

\* The catalogs of main: every station of GROUND_STATIONS is catalogued.
MainCatalogs == [StationIds -> 0 .. MaxCapacity]

InitPipeline ==
    /\ \E caps \in MainCatalogs :
          ground_stations = [i \in StationIds |-> [id |-> i, capacity |-> caps[i]]]
    /\ \E period \in 1 .. MaxPeriod, prio \in [1 .. NumSatellites -> Priorities] :
          satellites = [i \in 1 .. NumSatellites |->
                           [id |-> SatId(i), orbit_period |-> period,
                            priority |-> prio[i]]]
    /\ timestamp \in Times
    /\ pending = 1 .. NumSatellites
    /\ distance_log = << >>
    /\ telemetry = << >>
    /\ contact_windows = << >>
    /\ pc = "generate"
    /\ sorted_windows = << >>
    /\ assignments = << >>
    /\ gs_schedules = << >>
    /\ result = << >>
    /\ passes = 0
    /\ prev_assigned = << >>
    /\ prev_result = << >>
    /\ position_call = NoPositionCall

\* One iteration of "for satellite in shuffled": the shuffle leaves any
\* pending satellite next; its windows extend all_contact_windows.
GenerateWindows ==
    /\ pc = "generate"
    /\ \E i \in pending :
          \E dist \in [StationIds -> DistanceSamples], dur \in [StationIds -> Durations] :
              LET out == generate_contact_windows(satellites[i], ground_stations,
                                                  timestamp, dist, dur)
              IN /\ pending' = pending \ {i}
                 /\ contact_windows' = contact_windows \o out.windows
                 /\ distance_log' = distance_log \o out.printed
                 /\ pc' = IF out.status = "ok" THEN "generate" ELSE "raised"
    /\ UNCHANGED << ground_stations, sorted_windows, assignments, gs_schedules,
                    result, passes, prev_assigned, prev_result, position_call,
                    satellites, timestamp, telemetry >>

\* assigned_contacts = assign_contacts(all_contact_windows, GROUND_STATIONS)
MainAssign ==
    /\ pc = "generate"
    /\ pending = {}
    /\ StartPass

\* One iteration of "for contact in assigned": the telemetry of the next
\* assigned contact is simulated and logged.
LogTelemetry ==
    /\ pc = "returned"
    /\ LET assigned == AssignedContacts(contact_windows, result)
       IN /\ Len(telemetry) < Len(assigned)
          /\ LET contact == contact_windows[assigned[Len(telemetry) + 1]]
                 out == simulate_telemetry(
                            contact, OrbitPeriodOf(satellites, contact.satellite_id))
             IN IF out.status = "ok"
                THEN /\ telemetry' = Append(telemetry, out.record)
                     /\ pc' = pc
                ELSE /\ telemetry' = telemetry
                     /\ pc' = "raised"
    /\ UNCHANGED << ground_stations, contact_windows, sorted_windows, assignments,
                    gs_schedules, result, passes, prev_assigned, prev_result,
                    position_call, satellites, timestamp, pending, distance_log >>

\* The loop over the assigned contacts is over: main returns.
MainDone ==
    /\ pc = "returned"
    /\ Len(telemetry) = Len(AssignedContacts(contact_windows, result))
    /\ pc' = "done"
    /\ UNCHANGED << ground_stations, contact_windows, sorted_windows, assignments,
                    gs_schedules, result, passes, prev_assigned, prev_result,
                    position_call, pipeline_vars >>

NextPipeline ==
    GenerateWindows \/ MainAssign \/ Step \/ Return \/ LogTelemetry \/ MainDone

SpecPipeline == InitPipeline /\ [][NextPipeline]_vars

----------------------------------------------------------------------------
\* Helpers of the properties.

StartOf(w) == fromisoformat(w.start_time)
EndOf(w) == fromisoformat(w.end_time)

\* The catalog entry of station g, when the catalog has one.
Known(g) == HasStation(ground_stations, g)
CatalogIds == {ground_stations[i].id : i \in 1 .. Len(ground_stations)}

\* Windows of the batch at station g.
At(g) == {i \in DOMAIN contact_windows : contact_windows[i].ground_station_id = g}

\* Half-open intervals [start, end) that share an instant.
Intersect(a, b) == StartOf(a) < EndOf(b) /\ StartOf(b) < EndOf(a)

\* Position of window i in the returned list.
PosIn(seq, i) == CHOOSE k \in 1 .. Len(seq) : seq[k] = i

\* The batch reordered by the permutation p of its indices.
Permuted(p) == [i \in DOMAIN contact_windows |-> contact_windows[p[i]]]

----------------------------------------------------------------------------
\* C1: after assign_contacts returns, at every station and every instant
\* the number of windows with assigned = true whose interval [start, end)
\* contains the instant is at most the station's capacity.
C1_ConcurrentWithinCapacity ==
    pc = "returned" =>
        \A g \in CatalogIds : \A t \in Times :
            Cardinality({i \in At(g) :
                            /\ contact_windows[i].assigned = "true"
                            /\ StartOf(contact_windows[i]) <= t
                            /\ t < EndOf(contact_windows[i])})
                <= capacity(ground_stations, g)

\* The scenario of C2: exactly two windows at one station of capacity 1,
\* identical intervals, window a of priority 1 and window b of priority 2.
C2_Scenario(a, b) ==
    /\ DOMAIN contact_windows = {a, b}
    /\ a # b
    /\ contact_windows[a].priority = 1
    /\ contact_windows[b].priority = 2
    /\ contact_windows[a].ground_station_id = contact_windows[b].ground_station_id
    /\ contact_windows[a].start_time = contact_windows[b].start_time
    /\ contact_windows[a].end_time = contact_windows[b].end_time
    /\ Known(contact_windows[a].ground_station_id)
    /\ capacity(ground_stations, contact_windows[a].ground_station_id) = 1

\* C2: two windows with identical intervals at a station of capacity 1,
\* priorities 1 and 2: the priority-1 window is admitted and the
\* priority-2 window is rejected.
C2_PriorityOneAdmittedTwoRejected ==
    pc = "returned" =>
        \A a, b \in DOMAIN contact_windows :
            C2_Scenario(a, b) =>
                /\ contact_windows[a].assigned = "true"
                /\ contact_windows[b].assigned = "false"

\* C3: the outcome does not depend on the order of the input list: a call
\* on any reordering of the batch returns exactly when this call returned
\* and gives every window the assigned value this call gave it.
C3_PermutationInvariant ==
    pc \in {"returned", "raised"} =>
        \A p \in Permutations(DOMAIN contact_windows) :
            LET run == assign_contacts(Permuted(p), ground_stations)
            IN IF pc = "raised"
               THEN run.status = "raised"
               ELSE /\ run.status = "ok"
                    /\ \A i \in DOMAIN contact_windows :
                          run.wins[i].assigned = contact_windows[p[i]].assigned

\* Reached for C3: a returned batch whose input order is not its sorted
\* order and that holds both an admitted and a rejected window.
C3_Witness ==
    /\ pc = "returned"
    /\ Len(contact_windows) = MaxWindows
    /\ \E i \in 1 .. Len(result) : result[i] # i
    /\ \E i, j \in DOMAIN contact_windows :
          /\ contact_windows[i].assigned = "true"
          /\ contact_windows[j].assigned = "false"
          /\ contact_windows[i].ground_station_id = contact_windows[j].ground_station_id
          /\ capacity(ground_stations, contact_windows[i].ground_station_id) > 0

\* C4: when every window references a catalogued station, the returned
\* list has the input's length, holds every input window exactly once, and
\* every returned window has assigned true or false.
C4_SameWindowsAllFlagged ==
    (pc = "returned" /\ \A i \in DOMAIN contact_windows :
                            Known(contact_windows[i].ground_station_id)) =>
        /\ Len(result) = Len(contact_windows)
        /\ \A i \in DOMAIN contact_windows :
              Cardinality({k \in 1 .. Len(result) : result[k] = i}) = 1
        /\ \A k \in 1 .. Len(result) :
              contact_windows[result[k]].assigned \in {"true", "false"}

\* Reached for C4: a first call returned a full batch with an admitted and
\* a rejected window.
C4_Witness ==
    /\ pc = "returned"
    /\ passes = 1
    /\ Len(result) = MaxWindows
    /\ \E i, j \in DOMAIN contact_windows :
          /\ contact_windows[i].assigned = "true"
          /\ contact_windows[j].assigned = "false"

\* C5: every processed window at a station of capacity 0 is rejected,
\* whatever its priority, its interval and the rest of the batch.
C5_CapacityZeroRejectsAll ==
    \A g \in CatalogIds :
        capacity(ground_stations, g) = 0 =>
            \A i \in At(g) :
                /\ contact_windows[i].assigned # "true"
                /\ pc = "returned" => contact_windows[i].assigned = "false"

\* Reached for C5: a returned batch with windows of both priorities at a
\* station of capacity 0 and an admitted window at another station.
C5_Witness ==
    /\ pc = "returned"
    /\ \E g \in CatalogIds :
          /\ capacity(ground_stations, g) = 0
          /\ \E i, j \in At(g) :
                contact_windows[i].priority # contact_windows[j].priority
    /\ \E i \in DOMAIN contact_windows : contact_windows[i].assigned = "true"

\* C6: if the windows at a station of capacity >= 1 have pairwise disjoint
\* intervals, all of them are admitted.
C6_DisjointAllAdmitted ==
    pc = "returned" =>
        \A g \in CatalogIds :
            (/\ capacity(ground_stations, g) >= 1
             /\ \A i, j \in At(g) :
                   i # j => ~Intersect(contact_windows[i], contact_windows[j]))
            => \A i \in At(g) : contact_windows[i].assigned = "true"

\* Reached for C6: three sequential windows of one priority at a station
\* of capacity 1, each starting where the previous one ends, all admitted.
C6_Witness ==
    /\ pc = "returned"
    /\ Len(contact_windows) = 3
    /\ EndOf(contact_windows[1]) = StartOf(contact_windows[2])
    /\ EndOf(contact_windows[2]) = StartOf(contact_windows[3])
    /\ \A i \in 1 .. 3 :
          /\ contact_windows[i].ground_station_id = contact_windows[1].ground_station_id
          /\ contact_windows[i].priority = contact_windows[1].priority
          /\ contact_windows[i].assigned = "true"
    /\ capacity(ground_stations, contact_windows[1].ground_station_id) = 1

\* C7: a second call on the same list, whose windows carry the assigned
\* values of the first call, returns the same list and leaves every
\* window with the assigned value the first call gave it.
C7_Idempotent ==
    (pc = "returned" /\ passes >= 2) =>
        /\ Assigned(contact_windows) = prev_assigned
        /\ result = prev_result

\* Reached for C7: the second call returned, on a batch in which a window
\* admitted by the first call strictly contains a later-sorted admitted
\* window of its station, and another window was rejected.
C7_Witness ==
    /\ pc = "returned"
    /\ passes = 2
    /\ \E i, j \in DOMAIN contact_windows :
          /\ contact_windows[i].ground_station_id = contact_windows[j].ground_station_id
          /\ prev_assigned[i] = "true"
          /\ prev_assigned[j] = "true"
          /\ PosIn(result, i) < PosIn(result, j)
          /\ OverlapsExisting(contact_windows[i], contact_windows[j])
    /\ \E i \in DOMAIN contact_windows : prev_assigned[i] = "false"

\* C8: the returned list is ordered by priority, then by start time, and
\* windows of equal priority and start time keep their input order.
C8_ReturnedInSortedOrder ==
    pc = "returned" =>
        \A i, j \in 1 .. Len(result) :
            i < j =>
                LET a == contact_windows[result[i]]
                    b == contact_windows[result[j]]
                IN \/ a.priority < b.priority
                   \/ /\ a.priority = b.priority
                      /\ StartOf(a) < StartOf(b)
                   \/ /\ a.priority = b.priority
                      /\ StartOf(a) = StartOf(b)
                      /\ result[i] < result[j]

\* Reached for C8: the returned list differs from the input order and
\* holds two windows of equal priority and start time.
C8_Witness ==
    /\ pc = "returned"
    /\ \E i \in 1 .. Len(result) : result[i] # i
    /\ \E i, j \in DOMAIN contact_windows :
          /\ i # j
          /\ contact_windows[i].priority = contact_windows[j].priority
          /\ contact_windows[i].start_time = contact_windows[j].start_time
          /\ contact_windows[i].end_time # contact_windows[j].end_time

\* C9: when some window references a station the catalog does not have,
\* the call never returns a list: the loop cannot run to its end, it ends
\* with the exception.
C9_UnknownStationAborts ==
    (\E i \in DOMAIN contact_windows :
        ~Known(contact_windows[i].ground_station_id)) =>
        /\ pc # "returned"
        /\ result = << >>
        /\ pc = "loop" => Len(assignments) < Len(sorted_windows)

\* Reached for C9: the call raised after it had processed windows of a
\* catalogued station, one admitted and one rejected.
C9_Witness ==
    /\ pc = "raised"
    /\ \E i, j \in 1 .. Len(assignments) :
          /\ contact_windows[assignments[i]].assigned = "true"
          /\ contact_windows[assignments[j]].assigned = "false"

\* C10: among the windows a pass has marked assigned = true at a station,
\* any set in which every later-processed window overlaps every
\* earlier-processed one by the scheduler's own test has at most capacity
\* members.
C10_OverlapChainWithinCapacity ==
    pc \in {"loop", "returned"} =>
        \A g \in CatalogIds :
            \A S \in SUBSET {k \in 1 .. Len(assignments) :
                               /\ contact_windows[assignments[k]].ground_station_id = g
                               /\ contact_windows[assignments[k]].assigned = "true"} :
                (\A a, b \in S :
                    a < b => OverlapsExisting(contact_windows[assignments[b]],
                                              contact_windows[assignments[a]]))
                => Cardinality(S) <= capacity(ground_stations, g)

\* Reached for C10: at a station of capacity 1 a window was rejected
\* because it overlaps, by the scheduler's test, the one admitted window.
C10_Witness ==
    /\ pc = "returned"
    /\ \E a, b \in 1 .. Len(assignments) :
          /\ a < b
          /\ contact_windows[assignments[a]].ground_station_id
                = contact_windows[assignments[b]].ground_station_id
          /\ contact_windows[assignments[a]].assigned = "true"
          /\ contact_windows[assignments[b]].assigned = "false"
          /\ OverlapsExisting(contact_windows[assignments[b]],
                              contact_windows[assignments[a]])
          /\ capacity(ground_stations,
                      contact_windows[assignments[a]].ground_station_id) = 1

----------------------------------------------------------------------------
\* Helpers of the properties on sub-batches.

\* The indices of the batch that satisfy Keep, in input order.
RECURSIVE IndicesUpTo(_, _)
IndicesUpTo(Keep(_), n) ==
    IF n = 0
    THEN << >>
    ELSE IF Keep(n)
         THEN Append(IndicesUpTo(Keep, n - 1), n)
         ELSE IndicesUpTo(Keep, n - 1)

\* The windows at the indices idx, as the generator hands them over.
SubBatch(idx) ==
    [k \in 1 .. Len(idx) |-> [contact_windows[idx[k]] EXCEPT !.assigned = "unset"]]

\* The windows of priority <= p, and the windows at station g.
UpToPriority(p) ==
    IndicesUpTo(LAMBDA i : contact_windows[i].priority <= p, Len(contact_windows))
AtStation(g) ==
    IndicesUpTo(LAMBDA i : contact_windows[i].ground_station_id = g,
                Len(contact_windows))

\* The processed windows of assigns at station g that carry assigned = true.
AdmittedAt(wins, assigns, g) ==
    SelectSeq(assigns, LAMBDA i : /\ wins[i].ground_station_id = g
                                  /\ wins[i].assigned = "true")

\* The window the loop processes next.
NextContact == sorted_windows[Len(assignments) + 1]

----------------------------------------------------------------------------
\* C15: for each window the loop processes, the overlap count compared
\* against capacity equals the number of already-admitted windows at its
\* station whose interval intersects the window's interval.
C15_OverlapCountIsIntersectionCount ==
    (/\ pc = "loop"
     /\ Len(assignments) < Len(sorted_windows)
     /\ Known(contact_windows[NextContact].ground_station_id)) =>
        LET sched == gs_schedules[contact_windows[NextContact].ground_station_id]
        IN overlaps(contact_windows, sched, NextContact)
              = Cardinality({k \in 1 .. Len(sched) :
                                Intersect(contact_windows[NextContact],
                                          contact_windows[sched[k]])})

\* C16: the assigned value of a window never depends on windows of
\* strictly larger numeric priority: for every tier p, a call on only the
\* windows of priority <= p gives each of them the value it has here.
C16_LowerTiersUnaffectedByHigher ==
    pc \in {"returned", "raised"} =>
        \A p \in Priorities :
            LET idx == UpToPriority(p)
                run == assign_contacts(SubBatch(idx), ground_stations)
            IN \A k \in 1 .. Len(idx) :
                  run.wins[k].assigned = contact_windows[idx[k]].assigned

\* Reached for C16: a returned batch in which a window of priority 2
\* strictly contains an admitted window of priority 1 at its station and
\* was rejected for it.
C16_Witness ==
    /\ pc = "returned"
    /\ \E i, j \in DOMAIN contact_windows :
          /\ contact_windows[i].priority = 1
          /\ contact_windows[j].priority = 2
          /\ contact_windows[i].ground_station_id = contact_windows[j].ground_station_id
          /\ OverlapsExisting(contact_windows[j], contact_windows[i])
          /\ contact_windows[i].assigned = "true"
          /\ contact_windows[j].assigned = "false"
          /\ PosIn(result, i) > 1

\* C17: each station's admission stream is independent of the others: a
\* pass that returns gives every window at station g the value that a
\* call on the windows of g alone, with a catalog that holds only g, gives
\* it; a pass that raises has a station whose windows alone raise.
C17_StationsIndependent ==
    /\ pc = "returned" =>
          \A g \in CatalogIds :
              LET idx == AtStation(g)
                  run == assign_contacts(
                             SubBatch(idx),
                             << [id |-> g, capacity |-> capacity(ground_stations, g)] >>)
              IN /\ run.status = "ok"
                 /\ \A k \in 1 .. Len(idx) :
                       run.wins[k].assigned = contact_windows[idx[k]].assigned
    /\ pc = "raised" =>
          \E g \in StationIds :
              assign_contacts(SubBatch(AtStation(g)), ground_stations).status = "raised"

\* Reached for C17: a returned batch with windows at two stations, where
\* an admitted window at one station strictly contains an earlier-sorted
\* admitted window at the other station of capacity 1.
C17_Witness ==
    /\ pc = "returned"
    /\ \E i, j \in DOMAIN contact_windows :
          /\ contact_windows[i].ground_station_id # contact_windows[j].ground_station_id
          /\ PosIn(result, i) < PosIn(result, j)
          /\ OverlapsExisting(contact_windows[j], contact_windows[i])
          /\ contact_windows[i].assigned = "true"
          /\ contact_windows[j].assigned = "true"
          /\ capacity(ground_stations, contact_windows[j].ground_station_id) = 1

\* C18: within a pass every step processes exactly the next window of the
\* sorted list and writes only that window's flag, to true or false; the
\* flag of a processed window never changes again, the processed list only
\* grows, up to the length of the sorted list, and each station's
\* admitted list is exactly its processed windows with assigned = true.
C18_FlagsFinalWithinPass ==
    [][pc = "loop" =>
          /\ sorted_windows' = sorted_windows
          /\ Len(assignments') <= Len(sorted_windows)
          /\ \A k \in 1 .. Len(assignments) :
                /\ assignments'[k] = assignments[k]
                /\ contact_windows'[assignments[k]].assigned
                      = contact_windows[assignments[k]].assigned
          /\ \/ /\ assignments' = assignments
                /\ Assigned(contact_windows') = Assigned(contact_windows)
             \/ /\ assignments' = Append(assignments, NextContact)
                /\ contact_windows'[NextContact].assigned \in {"true", "false"}
                /\ \A i \in DOMAIN contact_windows :
                      i # NextContact =>
                          contact_windows'[i].assigned = contact_windows[i].assigned
          /\ \A g \in DOMAIN gs_schedules' :
                gs_schedules'[g] = AdmittedAt(contact_windows', assignments', g)
    ]_vars

\* Reached for C18: a pass in progress that has rejected a window, has
\* admitted a later one and still has a window to process.
C18_Witness ==
    /\ pc = "loop"
    /\ passes = 1
    /\ Len(assignments) < Len(sorted_windows)
    /\ \E a, b \in 1 .. Len(assignments) :
          /\ a < b
          /\ contact_windows[assignments[a]].assigned = "false"
          /\ contact_windows[assignments[b]].assigned = "true"

----------------------------------------------------------------------------
\* An identifier of the form SAT-<positive integer>.
WellFormedId(id) ==
    /\ id # NoneId
    /\ Len(id) >= 5
    /\ SubSeq(id, 1, 4) = << "S", "A", "T", "-" >>
    /\ IsIntLiteral(SubSeq(id, 5, Len(id)))
    /\ IntValue(SubSeq(id, 5, Len(id))) > 0

\* C11: a call with an orbit period <= 0 (and a well-formed identifier) never returns a position and
\* fails with an invalid-input error, not with a division by zero.
C11_NonPositivePeriodFailsFast ==
    (/\ position_call.status = "finished"
     /\ position_call.orbit_period <= 0
     /\ WellFormedId(position_call.sat_id)) =>
        position_call.outcome.status \notin {"ok", "ZeroDivisionError"}

\* C12: a call with an identifier that is not of the form
\* SAT-<positive integer> (and a positive orbit period) fails with an
\* error; no position is returned.
C12_MalformedIdFails ==
    (/\ position_call.status = "finished"
     /\ position_call.orbit_period > 0
     /\ ~WellFormedId(position_call.sat_id)) =>
        position_call.outcome.status # "ok"

----------------------------------------------------------------------------
\* Helpers of the properties on the end-to-end run.

\* The windows generated for satellite i at station g, and the printed
\* distance lines of that pair.
WindowsOf(i, g) ==
    {k \in DOMAIN contact_windows :
        /\ contact_windows[k].satellite_id = satellites[i].id
        /\ contact_windows[k].ground_station_id = g}
LinesOf(i, g) ==
    {k \in DOMAIN distance_log :
        /\ distance_log[k].satellite_id = satellites[i].id
        /\ distance_log[k].ground_station_id = g}

\* The telemetry records logged for window w.
TelemetryOf(w) ==
    {k \in DOMAIN telemetry :
        /\ telemetry[k].satellite_id = w.satellite_id
        /\ telemetry[k].ground_station_id = w.ground_station_id}

\* C13: for a satellite the generator has handled, each station has been
\* given one computed distance; a station whose distance is < 5000 has
\* exactly one window, which records that distance and the station, and a
\* station at or beyond 5000 has none.
C13_WindowIffWithinThreshold ==
    /\ \A i \in (1 .. Len(satellites)) \ pending : \A g \in StationIds :
          /\ Cardinality(LinesOf(i, g)) = 1
          /\ \A l \in LinesOf(i, g) :
                /\ Cardinality(WindowsOf(i, g))
                      = IF distance_log[l].distance < VisibilityThreshold THEN 1 ELSE 0
                /\ \A k \in WindowsOf(i, g) :
                      contact_windows[k].distance = distance_log[l].distance
    /\ \A k \in DOMAIN contact_windows :
          /\ contact_windows[k].distance < VisibilityThreshold
          /\ \E i \in (1 .. Len(satellites)) \ pending :
                contact_windows[k].satellite_id = satellites[i].id

\* Reached for C13: all satellites are handled; one has a window at one
\* station and none at another, one has no window at all.
C13_Witness ==
    /\ pc = "generate"
    /\ pending = {}
    /\ Len(satellites) >= 2
    /\ \E i \in 1 .. Len(satellites) : \E g, h \in StationIds :
          WindowsOf(i, g) # {} /\ WindowsOf(i, h) = {}
    /\ \E i \in 1 .. Len(satellites) : \A g \in StationIds : WindowsOf(i, g) = {}

\* C14: telemetry is logged only once the scheduling pass has returned
\* and every window carries its flag; a window never has more than one
\* record, a record only belongs to a window with assigned = true, and
\* when main is done every assigned window has exactly one record and
\* every other window none.
C14_OneTelemetryPerAssigned ==
    /\ telemetry # << >> =>
          /\ pc \in {"returned", "done"}
          /\ \A i \in DOMAIN contact_windows :
                contact_windows[i].assigned \in {"true", "false"}
    /\ \A k \in DOMAIN telemetry :
          \E i \in DOMAIN contact_windows : k \in TelemetryOf(contact_windows[i])
    /\ \A i \in DOMAIN contact_windows :
          LET n == Cardinality(TelemetryOf(contact_windows[i]))
          IN /\ n <= 1
             /\ n = 1 => contact_windows[i].assigned = "true"
             /\ pc = "done" =>
                   n = IF contact_windows[i].assigned = "true" THEN 1 ELSE 0

\* Reached for C14: main is done with several telemetry records logged
\* and a window left without one because it was rejected.
C14_Witness ==
    /\ pc = "done"
    /\ Len(telemetry) >= 2
    /\ \E i \in DOMAIN contact_windows : contact_windows[i].assigned = "false"

\* C19: every generated window starts at the tick, ends 5 to 15 minutes
\* later, carries its satellite's priority and, until the scheduler runs,
\* no assigned value; all windows of the batch share one start_time.
C19_GeneratedWindowShape ==
    /\ \A k \in DOMAIN contact_windows :
          LET w == contact_windows[k]
          IN /\ w.start_time = isoformat(timestamp)
             /\ fromisoformat(w.end_time) - fromisoformat(w.start_time) >= MinDuration
             /\ fromisoformat(w.end_time) - fromisoformat(w.start_time) <= MaxDuration
             /\ fromisoformat(w.end_time) > fromisoformat(w.start_time)
             /\ \E i \in 1 .. Len(satellites) :
                   /\ satellites[i].id = w.satellite_id
                   /\ satellites[i].priority = w.priority
             /\ pc = "generate" => w.assigned = "unset"
    /\ \A k, l \in DOMAIN contact_windows :
          contact_windows[k].start_time = contact_windows[l].start_time

\* Reached for C19: the generated batch holds windows of two priorities
\* and of the shortest and the longest duration.
C19_Witness ==
    /\ pc = "generate"
    /\ pending = {}
    /\ \E k, l \in DOMAIN contact_windows :
          /\ contact_windows[k].priority # contact_windows[l].priority
          /\ fromisoformat(contact_windows[k].end_time) = timestamp + MinDuration
          /\ fromisoformat(contact_windows[l].end_time) = timestamp + MaxDuration

\* C20: in the end-to-end run the overlap count of every window the
\* scheduler processes is 0, and every generated window at a station of
\* capacity >= 1 ends with assigned = true.
C20_PipelineAdmitsAllAtCapacity ==
    /\ (pc = "loop" /\ Len(assignments) < Len(sorted_windows)) =>
          overlaps(contact_windows,
                   gs_schedules[contact_windows[NextContact].ground_station_id],
                   NextContact) = 0
    /\ pc \in {"returned", "done"} =>
          \A k \in DOMAIN contact_windows :
              capacity(ground_stations, contact_windows[k].ground_station_id) >= 1
                  => contact_windows[k].assigned = "true"

\* Reached for C20: a station of capacity 1 received a window of every
\* satellite, of different priorities and different lengths, and all of
\* them are assigned.
C20_Witness ==
    /\ pc = "done"
    /\ \E g \in StationIds :
          /\ capacity(ground_stations, g) = 1
          /\ \A i \in 1 .. Len(satellites) :
                /\ WindowsOf(i, g) # {}
                /\ \A k \in WindowsOf(i, g) : contact_windows[k].assigned = "true"
          /\ \E k, l \in At(g) :
                /\ contact_windows[k].priority < contact_windows[l].priority
                /\ EndOf(contact_windows[k]) < EndOf(contact_windows[l])

====
